---- MODULE Spec2Model ----
(***************************************************************************)
(* v_finder: the county risk-scoring and outlier engine.                   *)
(*                                                                         *)
(* State: the DuckDB tables county_ref, acs_county, ppp_clean (inputs),    *)
(* county_agg (data/acs/create_county_agg.py), county_scores               *)
(* (fraud/score.py build_county_scores, or the older                       *)
(* data/acs/create_county_scores.py) and the frame last returned by        *)
(* ui/outliers.py load_outliers.  schema holds what the catalog says of    *)
(* the three input tables (their rows are county_ref, acs_county and       *)
(* ppp_clean); ppp_ingest_log, acs_dictionary, lender_profiles and          *)
(* county_lender_signals are the other tables; run holds, for each session  *)
(* that can call run_full_scoring, the statement it has reached.            *)
(*                                                                         *)
(* Numbers.  DOUBLE columns are held as integers: rates and counts in     *)
(* their own unit, dollars per head in 1/PerCapScale (the inputs are       *)
(* chosen so that every quotient the aggregator and the normalizer form    *)
(* is whole in its unit), z-scores in 1/ZScale, risk and hidden-signal     *)
(* scores in 1/RiskScale.  SQL NULL / pandas NaN is the value NULL.        *)
(***************************************************************************)
EXTENDS Integers, Sequences, FiniteSets, TLC

VARIABLES county_ref, acs_county, ppp_clean, county_agg, county_scores, df,
          schema, ppp_ingest_log, acs_dictionary, lender_profiles,
          county_lender_signals, run

\* the catalog beside the tables above, and the scoring runs under way
rest == <<schema, ppp_ingest_log, acs_dictionary, lender_profiles,
          county_lender_signals, run>>

vars == <<county_ref, acs_county, ppp_clean, county_agg, county_scores, df, rest>>

(***************************************************************************)
(* Bounds of the model                                                     *)
(***************************************************************************)
\* counties of a small reference set
MaxCounties == 3
\* rows of ppp_clean aimed at the named counties
MaxLoans == 2
\* identical counties of a large reference set (one more county stands out)
CrowdSize == 27
\* rows of ppp_ingest_log
MaxLogRows == 3

(***************************************************************************)
(* Number representation                                                   *)
(***************************************************************************)
NULL == -999999
\* z-scores are held in thousandths
ZScale == 1000
\* the weights 0.40, 0.30, ... are held in hundredths
WScale == 100
\* digits kept of a square root
SdScale == 100
\* dollars per head are held in tenths
PerCapScale == 10
RiskScale == ZScale * WScale

IsNull(x) == x = NULL

RECURSIVE SumSeq(_)
SumSeq(s) == IF s = <<>> THEN 0 ELSE Head(s) + SumSeq(Tail(s))

RECURSIVE ISqrtIn(_, _, _)
\* the largest r in lo..hi with r*r <= n
ISqrtIn(n, lo, hi) ==
    IF lo >= hi THEN lo
    ELSE LET mid == (lo + hi + 1) \div 2
         IN  IF mid * mid <= n THEN ISqrtIn(n, mid, hi) ELSE ISqrtIn(n, lo, mid - 1)

ISqrt(n) == ISqrtIn(n, 0, 46340)

\* the sequence f with every element worked out once
Rows(f) == f \o <<>>

Col(rows, c) == Rows([i \in 1..Len(rows) |-> rows[i][c]])

(***************************************************************************)
(* Tables                                                                  *)
(***************************************************************************)
NoTable == [exists |-> FALSE, cols |-> {}, rows |-> <<>>]

Table(cols, rows) == [exists |-> TRUE, cols |-> cols, rows |-> rows]

\* information_schema.tables lookup
table_exists(t) == t.exists

\* information_schema.columns lookup
col_exists(t, c) == t.exists /\ c \in t.cols

\* Median_Income is carried by county_agg too; nothing modelled here reads it
AggCols ==
    {"GEOID", "STUSPS", "NAME", "Total_Pop", "Poverty_Rate",
     "Unemployment_Rate", "ppp_loan_count", "ppp_current_total", "ppp_per_capita"}

ScoreCols ==
    {"GEOID", "STUSPS", "NAME", "Total_Pop", "Poverty_Rate", "Unemployment_Rate",
     "ppp_loan_count", "ppp_current_total", "ppp_per_capita", "loans_per_1k",
     "dollars_per_capita", "risk_score", "risk_rank", "risk_percentile_rank",
     "risk_tier", "hidden_signal_score", "hidden_signal_tier"}

LegacyScoreCols ==
    {"GEOID", "STUSPS", "NAME", "Total_Pop", "Poverty_Rate", "Unemployment_Rate",
     "ppp_loan_count", "ppp_current_total", "ppp_per_capita", "fraud_score"}

\* the tables whose rows are held apart from their catalog entry
InputTables == {"ppp_clean", "county_ref", "acs_county"}

\* a catalog entry is the set of columns; no column stands for no such table
NoCols == {}

\* ppp_clean as ingest writes it (of its 55 columns, those the model's SQL reads)
PppCols ==
    {"loannumber", "borrowerstate_u", "county_norm", "currentapprovalamount",
     "initialapprovalamount", "jobsreported", "originatinglender",
     "servicinglendername"}

\* ppp_ingest_log as _create_or_replace_log_table of ppp/ingest.py creates it
IngestLogCols == {"file_path", "chunk_index", "row_count", "status", "error"}

\* the row _append_log writes for the chunk at place i of the directory
LogRow(i, chunk, status) == [chunk_index |-> i, row_count |-> Len(chunk), status |-> status]

\* the columns of county_ref and of acs_county that the model's SQL reads; the
\* skeletons of ensure_base_schema hold them as well
RefCols == {"GEOID", "STUSPS", "NAME"}

AcsCols == {"GEOID", "Total_Pop", "Median_Income", "Poverty_Rate", "Unemployment_Rate"}

\* every input table as its pipeline leaves it
FullSchema ==
    [t \in InputTables |->
        CASE t = "ppp_clean" -> PppCols [] t = "county_ref" -> RefCols [] t = "acs_county" -> AcsCols]

\* a database file just created
NoSchema == [t \in InputTables |-> NoCols]

\* the sessions that can call run_full_scoring at the same time
Runners == {1, 2}

\* a session that is not running the scoring stack
IdleRun ==
    [pc |-> "idle", error |-> "",
     before |-> [acs_dictionary |-> NoTable, county_scores |-> NoTable,
                 lender_profiles |-> NoTable, county_lender_signals |-> NoTable]]

(***************************************************************************)
(* Inputs: reference counties, ACS rows and cleaned loans                  *)
(***************************************************************************)
\* a county name: county_ref holds it as written, ppp_clean holds county_norm
Name(id, form) == [id |-> id, form |-> form]

\* SQL LOWER()
Lower(name) == [id |-> name.id, form |-> "lower"]

\* ACS profiles a county can have; 0 stands for "no row in acs_county"
Profile(k) ==
    CASE k = 1 -> [Total_Pop |-> 50,  Poverty_Rate |-> 5,    Unemployment_Rate |-> 3]
      [] k = 2 -> [Total_Pop |-> 100, Poverty_Rate |-> 20,   Unemployment_Rate |-> 6]
      [] k = 3 -> [Total_Pop |-> 50,  Poverty_Rate |-> 20,   Unemployment_Rate |-> 3]
      [] k = 4 -> [Total_Pop |-> 0,   Poverty_Rate |-> 20,   Unemployment_Rate |-> 6]
      [] k = 5 -> [Total_Pop |-> 100, Poverty_Rate |-> NULL, Unemployment_Rate |-> NULL]

Profiles == 0..5

\* the named counties: two states hold a county called Adams
RefRow(g) ==
    CASE g = 1 -> [GEOID |-> 1, STUSPS |-> "AL", NAME |-> Name(1, "title")]
      [] g = 2 -> [GEOID |-> 2, STUSPS |-> "AL", NAME |-> Name(2, "title")]
      [] g = 3 -> [GEOID |-> 3, STUSPS |-> "GA", NAME |-> Name(1, "title")]
      [] OTHER -> [GEOID |-> g, STUSPS |-> "GA", NAME |-> Name(g, "title")]

\* the counties of the crowd: one state, every name its own
CrowdRow(g) == [GEOID |-> g, STUSPS |-> "TX", NAME |-> Name(100 + g, "title")]

AcsRow(g, k) ==
    [GEOID |-> g, Total_Pop |-> Profile(k).Total_Pop,
     Poverty_Rate |-> Profile(k).Poverty_Rate,
     Unemployment_Rate |-> Profile(k).Unemployment_Rate]

Sorted(s) == \A i \in 1..(Len(s) - 1) : s[i] <= s[i + 1]

\* profile choices of a small reference set, one per county
SmallChoices ==
    UNION {{s \in [1..n -> Profiles] : Sorted(s)} : n \in 1..MaxCounties}

\* a large reference set: county 1 of profile k, then CrowdSize counties of profile c
CrowdChoice(k, c) == [i \in 1..(CrowdSize + 1) |-> IF i = 1 THEN k ELSE c]

SmallRef(n) == [g \in 1..n |-> RefRow(g)]

\* county 1 is Adams of state st; the crowd follows
CrowdRef(st) ==
    [g \in 1..(CrowdSize + 1) |->
        IF g = 1 THEN [GEOID |-> 1, STUSPS |-> st, NAME |-> Name(1, "title")]
        ELSE CrowdRow(g)]

AcsOf(choice) ==
    LET present == SelectSeq([g \in 1..Len(choice) |-> g], LAMBDA g : choice[g] # 0)
    IN  [i \in 1..Len(present) |-> AcsRow(present[i], choice[present[i]])]

\* a row of ppp_clean: ingest writes county_norm and borrowerstate_u in upper case
Loan(nameId, state, amount) ==
    [county_norm |-> Name(nameId, "upper"), borrowerstate_u |-> state,
     currentapprovalamount |-> amount]

\* loan kinds aimed at the named counties; name 0 is in no reference set
LoanKind(k) ==
    CASE k = 1 -> Loan(1, "AL", 50)
      [] k = 2 -> Loan(1, "AL", 100)
      [] k = 3 -> Loan(2, "AL", 100)
      [] k = 4 -> Loan(0, "AL", 50)
      [] k = 5 -> Loan(1, "AL", 10)
      [] k = 6 -> Loan(2, "AL", 10)

\* ppp_clean holding up to MaxLoans loans, each of another kind from ks
NamedLoans(ks) ==
    {[i \in 1..Len(s) |-> LoanKind(s[i])] :
        s \in UNION {{t \in [1..n -> ks] : \A i \in 1..(n - 1) : t[i] < t[i + 1]}
                     : n \in 0..MaxLoans}}

\* one loan of 50 in every county of the crowd
BlanketLoans == [i \in 1..CrowdSize |-> Loan(100 + i + 1, "TX", 50)]

NoFrame == [loaded |-> FALSE, use_peer_norm |-> FALSE, rows |-> <<>>]

InitSmall ==
    \E choice \in SmallChoices :
       /\ county_ref = SmallRef(Len(choice))
       /\ acs_county = AcsOf(choice)
       /\ ppp_clean \in NamedLoans({1, 3, 4, 5, 6})

\* the county that stands out is of profile 1 among a crowd of profile 2, or the
\* other way round; it lies in the crowd's state or in another
InitCrowd ==
    \E k \in {1, 2}, st \in {"AL", "TX"} :
       /\ county_ref = CrowdRef(st)
       /\ acs_county = AcsOf(CrowdChoice(k, 3 - k))
       /\ \E named \in NamedLoans({1, 2}), blanket \in {<<>>, BlanketLoans} :
             ppp_clean = named \o blanket

\* the log an ingest of the loans as one chunk has left
Ingested(loans, cols) ==
    IF cols = NoCols THEN NoTable
    ELSE Table(IngestLogCols, IF loans = <<>> THEN <<>> ELSE <<LogRow(1, loans, "OK")>>)

\* nothing but the input tables and the ingest log exists, and no session is scoring
Unscored ==
    /\ ppp_ingest_log = Ingested(ppp_clean, schema["ppp_clean"])
    /\ acs_dictionary = NoTable
    /\ lender_profiles = NoTable
    /\ county_lender_signals = NoTable
    /\ run = [r \in Runners |-> IdleRun]

Init ==
    /\ InitSmall \/ InitCrowd
    /\ schema = FullSchema
    /\ Unscored
    /\ county_agg = NoTable
    /\ county_scores = NoTable
    /\ df = NoFrame

(***************************************************************************)
(* data/acs/create_county_agg.py                                           *)
(***************************************************************************)
\* CTE p: GROUP BY county_norm, COUNT(*) and SUM(currentapprovalamount)
AggP(loans) ==
    LET keys == {loans[i].county_norm : i \in 1..Len(loans)}
    IN  {[county_norm |-> k,
          ppp_loan_count |-> Len(SelectSeq(loans, LAMBDA l : l.county_norm = k)),
          ppp_current_total |->
              SumSeq(Col(SelectSeq(loans, LAMBDA l : l.county_norm = k),
                         "currentapprovalamount"))] : k \in keys}

\* LEFT JOIN a ON a.GEOID = r.GEOID: the ACS row of a county, NULLs when none
AcsFor(acs, g) ==
    LET hit == SelectSeq(acs, LAMBDA a : a.GEOID = g)
    IN  IF Len(hit) > 0 THEN hit[1]
        ELSE [GEOID |-> NULL, Total_Pop |-> NULL, Poverty_Rate |-> NULL,
              Unemployment_Rate |-> NULL]

\* LEFT JOIN p ON LOWER(p.county_norm) = LOWER(r.NAME)
PFor(p, name) == {x \in p : Lower(x.county_norm) = Lower(name)}

\* CASE WHEN a.Total_Pop > 0 THEN COALESCE(total, 0) / a.Total_Pop ELSE 0 END
AggPerCapita(pop, total) ==
    IF ~IsNull(pop) /\ pop > 0 THEN (total * PerCapScale) \div pop ELSE 0

AggRow(r, a, p) ==
    LET cnt == IF p = {} THEN 0 ELSE (CHOOSE x \in p : TRUE).ppp_loan_count
        tot == IF p = {} THEN 0 ELSE (CHOOSE x \in p : TRUE).ppp_current_total
    IN  [GEOID |-> r.GEOID, STUSPS |-> r.STUSPS, NAME |-> r.NAME,
         Total_Pop |-> a.Total_Pop,
         Poverty_Rate |-> a.Poverty_Rate,
         Unemployment_Rate |-> a.Unemployment_Rate,
         ppp_loan_count |-> cnt,
         ppp_current_total |-> tot,
         ppp_per_capita |-> AggPerCapita(a.Total_Pop, tot)]

\* CountyAggRows with JOIN p in place of LEFT JOIN p
CountyAggRowsInnerJoin(ref, acs, loans) ==
    LET p == AggP(loans)
        hit == SelectSeq(ref, LAMBDA r : PFor(p, r.NAME) # {})
    IN  Rows([i \in 1..Len(hit) |-> AggRow(hit[i], AcsFor(acs, hit[i].GEOID), PFor(p, hit[i].NAME))])

\* the SELECT of CREATE TABLE county_agg AS
CountyAggRows(ref, acs, loans) ==
    LET p == AggP(loans)
    IN  Rows([i \in 1..Len(ref) |-> AggRow(ref[i], AcsFor(acs, ref[i].GEOID), PFor(p, ref[i].NAME))])

\* the CREATE can bind its three FROM tables
AggInputsReady ==
    /\ {"county_norm", "currentapprovalamount"} \subseteq schema["ppp_clean"]
    /\ AcsCols \subseteq schema["acs_county"]
    /\ RefCols \subseteq schema["county_ref"]

\* DROP TABLE IF EXISTS runs first; a CREATE that cannot bind leaves no county_agg
create_county_agg ==
    /\ county_agg' =
          IF AggInputsReady
          THEN Table(AggCols, CountyAggRows(county_ref, acs_county, ppp_clean))
          ELSE NoTable
    /\ df' = NoFrame
    /\ UNCHANGED <<county_ref, acs_county, ppp_clean, county_scores, rest>>

(***************************************************************************)
(* fraud/score.py build_county_scores                                      *)
(***************************************************************************)
\* CASE WHEN Total_Pop IS NULL OR Total_Pop <= 0 THEN NULL ELSE x / Total_Pop END
PerPop(x, pop) ==
    IF IsNull(pop) \/ pop <= 0 THEN NULL ELSE x \div pop

\* CTE base
BaseRow(a) ==
    [GEOID |-> a.GEOID, STUSPS |-> a.STUSPS, NAME |-> a.NAME,
     Total_Pop |-> a.Total_Pop, Poverty_Rate |-> a.Poverty_Rate,
     Unemployment_Rate |-> a.Unemployment_Rate,
     ppp_loan_count |-> a.ppp_loan_count,
     ppp_current_total |-> a.ppp_current_total,
     ppp_per_capita |-> a.ppp_per_capita,
     loans_per_1k |-> PerPop(a.ppp_loan_count * 1000, a.Total_Pop),
     dollars_per_capita |-> PerPop(a.ppp_current_total * PerCapScale, a.Total_Pop)]

\* Base with the counties of no valid population filtered out
BaseValidPop(agg) ==
    LET kept == SelectSeq(agg, LAMBDA a : ~(IsNull(a.Total_Pop) \/ a.Total_Pop <= 0))
    IN  Rows([i \in 1..Len(kept) |-> BaseRow(kept[i])])

Base(agg) == Rows([i \in 1..Len(agg) |-> BaseRow(agg[i])])

\* what avg() and stddev_pop() read of a column: the non-NULL values only
Moments(xs) ==
    LET vals == SelectSeq(xs, LAMBDA v : ~IsNull(v))
    IN  [n |-> Len(vals),
         sum |-> SumSeq(vals),
         sumsq |-> SumSeq([i \in 1..Len(vals) |-> vals[i] * vals[i]])]

\* n^2 times the population variance
VarN2(m) == m.n * m.sumsq - m.sum * m.sum

\* sd IS NOT NULL AND sd > 0, for sd = stddev_pop over the column
SdPositive(m) == m.n > 0 /\ VarN2(m) > 0

\* (x - avg) / stddev_pop, in 1/ZScale; NULL when x is NULL
ZValue(x, m) ==
    IF IsNull(x) THEN NULL
    ELSE ((m.n * x - m.sum) * ZScale * SdScale) \div ISqrt(VarN2(m) * SdScale * SdScale)

\* CASE WHEN sd IS NOT NULL AND sd > 0 THEN (x - mu) / sd ELSE 0 END
ZCase(x, m) == IF SdPositive(m) THEN ZValue(x, m) ELSE 0

\* CTE stats
Stats(base) ==
    [dpc |-> Moments(Col(base, "dollars_per_capita")),
     lpk |-> Moments(Col(base, "loans_per_1k")),
     pov |-> Moments(Col(base, "Poverty_Rate")),
     unemp |-> Moments(Col(base, "Unemployment_Rate"))]

\* CTE scored
ScoredRow(b, st) ==
    [z_dpc |-> ZCase(b.dollars_per_capita, st.dpc),
     z_lpk |-> ZCase(b.loans_per_1k, st.lpk),
     z_pov |-> ZCase(b.Poverty_Rate, st.pov),
     z_unemp |-> ZCase(b.Unemployment_Rate, st.unemp)] @@ b

\* RiskScoreRaw with the poverty term subtracted
RiskScoreRawLessPoverty(r) ==
    IF IsNull(r.z_dpc) \/ IsNull(r.z_lpk) \/ IsNull(r.z_pov) \/ IsNull(r.z_unemp)
    THEN NULL
    ELSE r.z_dpc * 40 + r.z_lpk * 30 - r.z_pov * 20 + r.z_unemp * 10

\* z_dpc*0.40 + z_lpk*0.30 + z_pov*0.20 + z_unemp*0.10, in 1/RiskScale;
\* NULL when a term is NULL
RiskScoreRaw(r) ==
    IF IsNull(r.z_dpc) \/ IsNull(r.z_lpk) \/ IsNull(r.z_pov) \/ IsNull(r.z_unemp)
    THEN NULL
    ELSE r.z_dpc * 40 + r.z_lpk * 30 + r.z_pov * 20 + r.z_unemp * 10

\* RiskBound without the WHEN risk_score_raw > 5.0 branch
RiskBoundNoUpper(raw) ==
    IF IsNull(raw) THEN 0
    ELSE IF raw < -3 * RiskScale THEN -3 * RiskScale
    ELSE raw

\* CTE risk_bounded
RiskBound(raw) ==
    IF IsNull(raw) THEN 0
    ELSE IF raw < -3 * RiskScale THEN -3 * RiskScale
    ELSE IF raw > 5 * RiskScale THEN 5 * RiskScale
    ELSE raw

RiskBoundedRow(r) ==
    LET raw == RiskScoreRaw(r)
    IN  [risk_score_raw |-> raw, risk_score |-> RiskBound(raw)] @@ r

RiskBounded(agg) ==
    LET base == Base(agg)
        st == Stats(base)
    IN  Rows([i \in 1..Len(base) |-> RiskBoundedRow(ScoredRow(base[i], st))])

RowOrders(n) ==
    {f \in [1..n -> 1..n] : \A i, j \in 1..n : f[i] = f[j] => i = j}

\* row_number() when rows of equal risk_score are met in the order pos
StableRowNumber(rows, pos) ==
    Rows([i \in 1..Len(rows) |->
        1 + Cardinality({j \in 1..Len(rows) : rows[j].risk_score > rows[i].risk_score})
          + Cardinality({j \in 1..Len(rows) :
                            /\ rows[j].risk_score = rows[i].risk_score
                            /\ pos[j] < pos[i]})])

\* RowNumberings with ORDER BY risk_score ascending
RowNumberingsAsc(rows) ==
    LET n == Len(rows)
        neg == Rows([i \in 1..n |-> [risk_score |-> 0 - rows[i].risk_score]])
    IN  {StableRowNumber(neg, [i \in 1..n |-> i])}

\* RowNumberings with dense_rank() in place of row_number()
RowNumberingsDense(rows) ==
    {[i \in 1..Len(rows) |->
        1 + Cardinality({rows[j].risk_score : j \in 1..Len(rows)}
                        \cap {x \in {rows[j].risk_score : j \in 1..Len(rows)} :
                                 x > rows[i].risk_score})]}

\* row_number() OVER (ORDER BY risk_score DESC): the numberings 1..n of the rows
\* that put a higher risk_score first; rows of equal risk_score may come in any
\* order.  Of a table of more than three rows the two stable numberings are taken.
RowNumberings(rows) ==
    LET n == Len(rows)
    IN  IF n <= 3
        THEN {rn \in RowOrders(n) :
                \A i, j \in 1..n : rows[i].risk_score > rows[j].risk_score => rn[i] < rn[j]}
        ELSE {StableRowNumber(rows, [i \in 1..n |-> i]),
              StableRowNumber(rows, [i \in 1..n |-> n + 1 - i])}

\* PercentileRank without the - 0.5
PercentileRankNoHalf(rn, n) == [num |-> 100 * 2 * rn, den |-> 2 * n]

\* 100.0 * (row_number - 0.5) / COUNT(*) OVER (), as the exact quotient num/den
PercentileRank(rn, n) == [num |-> 100 * (2 * rn - 1), den |-> 2 * n]

\* CTE risk_ranked
RiskRanked(rows, rn) ==
    Rows([i \in 1..Len(rows) |->
        [risk_rank |-> rn[i],
         risk_percentile_rank |-> PercentileRank(rn[i], Len(rows))]
        @@ rows[i]])

\* RiskTier with the HIGH threshold tested before the SEVERE one
RiskTierHighFirst(score) ==
    IF score >= 2 * RiskScale THEN "HIGH"
    ELSE IF score >= 3 * RiskScale THEN "SEVERE"
    ELSE IF score >= 1 * RiskScale THEN "ELEVATED"
    ELSE IF score >= 0 THEN "BASELINE"
    ELSE "LOW"

\* CTE risk_tiered
RiskTier(score) ==
    IF score >= 3 * RiskScale THEN "SEVERE"
    ELSE IF score >= 2 * RiskScale THEN "HIGH"
    ELSE IF score >= 1 * RiskScale THEN "ELEVATED"
    ELSE IF score >= 0 THEN "BASELINE"
    ELSE "LOW"

\* Greatest0 that lets a negative z through (the GREATEST left out)
Greatest0Signed(z) == IF IsNull(z) THEN 0 ELSE z

\* GREATEST(z, 0): DuckDB leaves a NULL argument out
Greatest0(z) == IF IsNull(z) \/ z < 0 THEN 0 ELSE z

\* a comparison with NULL is not true
LessThan(x, c) == ~IsNull(x) /\ x < c

GreaterThan(x, c) == ~IsNull(x) /\ x > c

\* CTE hidden_raw, in 1/RiskScale
HiddenSignalScoreRaw(r) ==
    Greatest0(r.z_dpc) * 50
    + Greatest0(r.z_lpk) * 30
    + (IF LessThan(r.Poverty_Rate, 10) /\ GreaterThan(r.z_dpc, (3 * ZScale) \div 2)
       THEN 50 * ZScale ELSE 0)
    + (IF LessThan(r.Unemployment_Rate, 4) /\ GreaterThan(r.z_dpc, (3 * ZScale) \div 2)
       THEN 30 * ZScale ELSE 0)

\* HiddenSignalTier with MILD from 0.0 on (>= in place of >)
HiddenSignalTierMildAtZero(h) ==
    IF h >= 4 * RiskScale THEN "CRITICAL"
    ELSE IF h >= 3 * RiskScale THEN "ANOMALOUS"
    ELSE IF h >= 2 * RiskScale THEN "WATCH"
    ELSE IF h >= 1 * RiskScale THEN "INTERESTING"
    ELSE IF h >= 0 THEN "MILD"
    ELSE "NEUTRAL"

\* hidden_signal_tier of CTE hidden_final
HiddenSignalTier(h) ==
    IF h >= 4 * RiskScale THEN "CRITICAL"
    ELSE IF h >= 3 * RiskScale THEN "ANOMALOUS"
    ELSE IF h >= 2 * RiskScale THEN "WATCH"
    ELSE IF h >= 1 * RiskScale THEN "INTERESTING"
    ELSE IF h > 0 THEN "MILD"
    ELSE "NEUTRAL"

\* CTE hidden_final: the columns of county_scores
HiddenFinalRow(r) ==
    LET hidden_signal_score_raw == HiddenSignalScoreRaw(r)
    IN
    [GEOID |-> r.GEOID, STUSPS |-> r.STUSPS, NAME |-> r.NAME,
     Total_Pop |-> r.Total_Pop, Poverty_Rate |-> r.Poverty_Rate,
     Unemployment_Rate |-> r.Unemployment_Rate,
     ppp_loan_count |-> r.ppp_loan_count,
     ppp_current_total |-> r.ppp_current_total,
     ppp_per_capita |-> r.ppp_per_capita,
     loans_per_1k |-> r.loans_per_1k,
     dollars_per_capita |-> r.dollars_per_capita,
     risk_score |-> r.risk_score,
     risk_rank |-> r.risk_rank,
     risk_percentile_rank |-> r.risk_percentile_rank,
     risk_tier |-> RiskTier(r.risk_score),
     hidden_signal_score |-> hidden_signal_score_raw,
     hidden_signal_tier |-> HiddenSignalTier(hidden_signal_score_raw)]

CountyScoresRows(bounded, rn) ==
    LET ranked == RiskRanked(bounded, rn)
    IN  Rows([i \in 1..Len(ranked) |-> HiddenFinalRow(ranked[i])])

\* the tables CREATE TABLE county_scores AS can leave, one for each order in
\* which rows of equal risk_score are numbered
Published(agg) ==
    LET bounded == RiskBounded(agg.rows)
    IN  {Table(ScoreCols, CountyScoresRows(bounded, rn)) : rn \in RowNumberings(bounded)}

\* the SELECT can bind the columns it reads of county_agg
AggReady(agg) == table_exists(agg) /\ AggCols \subseteq agg.cols

\* raises RuntimeError, before anything is dropped, when county_agg is missing;
\* over a county_agg without the columns, the CREATE fails after the DROP
build_county_scores ==
    /\ table_exists(county_agg)
    /\ county_scores' \in (IF AggReady(county_agg) THEN Published(county_agg) ELSE {NoTable})
    /\ df' = NoFrame
    /\ UNCHANGED <<county_ref, acs_county, ppp_clean, county_agg, rest>>

(***************************************************************************)
(* data/acs/create_county_scores.py: the older linear blend                *)
(***************************************************************************)
\* Poverty_Rate*0.3 + Unemployment_Rate*0.3 + ppp_per_capita*0.4, in
\* 1/(10*PerCapScale)
FraudScore(a) ==
    IF IsNull(a.Poverty_Rate) \/ IsNull(a.Unemployment_Rate) \/ IsNull(a.ppp_per_capita)
    THEN NULL
    ELSE a.Poverty_Rate * 3 * PerCapScale + a.Unemployment_Rate * 3 * PerCapScale
         + a.ppp_per_capita * 4

LegacyRow(a) ==
    [GEOID |-> a.GEOID, STUSPS |-> a.STUSPS, NAME |-> a.NAME,
     Total_Pop |-> a.Total_Pop, Poverty_Rate |-> a.Poverty_Rate,
     Unemployment_Rate |-> a.Unemployment_Rate,
     ppp_loan_count |-> a.ppp_loan_count,
     ppp_current_total |-> a.ppp_current_total,
     ppp_per_capita |-> a.ppp_per_capita,
     fraud_score |-> FraudScore(a)]

\* DROP TABLE IF EXISTS runs first; CREATE ... FROM county_agg fails without county_agg
create_county_scores ==
    /\ county_scores' =
          IF AggReady(county_agg)
          THEN Table(LegacyScoreCols,
                     Rows([i \in 1..Len(county_agg.rows) |-> LegacyRow(county_agg.rows[i])]))
          ELSE NoTable
    /\ df' = NoFrame
    /\ UNCHANGED <<county_ref, acs_county, ppp_clean, county_agg, rest>>

(***************************************************************************)
(* ui/outliers.py                                                          *)
(***************************************************************************)
\* pd.to_numeric(...).fillna(0.0)
FillNa0(x) == IF IsNull(x) THEN 0 ELSE x

\* NULL::VARCHAR, and the NULL of the NAME column
NullText == "NULL"

NullName == Name(-1, "NULL")

\* astype(str) of a text column: a missing value becomes the text None
AsStr(x) == IF x = NullText THEN "None" ELSE x

NameAsStr(x) == IF x = NullName THEN Name(-1, "None") ELSE x

\* LEFT JOIN t ON cs.GEOID = t.GEOID: column c of the joined row, null when none
Joined(t, g, c, null) ==
    LET hit == SelectSeq(t, LAMBDA r : r.GEOID = g)
    IN  IF Len(hit) > 0 THEN hit[1][c] ELSE null

\* an identifier: county_scores first, then county_ref, else NULL::VARCHAR
RefField(cs, r, c, null) ==
    IF col_exists(cs, c) THEN r[c] ELSE Joined(county_ref, r.GEOID, c, null)

\* a demographic: county_scores first, then acs_county, else NULL::DOUBLE
AcsField(cs, r, c) ==
    IF col_exists(cs, c) THEN r[c] ELSE Joined(acs_county, r.GEOID, c, NULL)

\* num_or_zero: the column when county_scores has it, else 0::DOUBLE
num_or_zero(cs, r, c) == IF col_exists(cs, c) THEN r[c] ELSE 0

\* txt_or_null: the column when county_scores has it, else NULL::VARCHAR
txt_or_null(cs, r, c) == IF col_exists(cs, c) THEN r[c] ELSE NullText

LoadedRow(cs, r) ==
    [GEOID |-> r.GEOID,
     STUSPS |-> AsStr(RefField(cs, r, "STUSPS", NullText)),
     NAME |-> NameAsStr(RefField(cs, r, "NAME", NullName)),
     Total_Pop |-> FillNa0(AcsField(cs, r, "Total_Pop")),
     Poverty_Rate |-> FillNa0(AcsField(cs, r, "Poverty_Rate")),
     Unemployment_Rate |-> FillNa0(AcsField(cs, r, "Unemployment_Rate")),
     ppp_loan_count |-> FillNa0(num_or_zero(cs, r, "ppp_loan_count")),
     ppp_current_total |-> FillNa0(num_or_zero(cs, r, "ppp_current_total")),
     ppp_per_capita |-> FillNa0(num_or_zero(cs, r, "ppp_per_capita")),
     risk_score |-> FillNa0(num_or_zero(cs, r, "risk_score")),
     risk_tier |-> AsStr(txt_or_null(cs, r, "risk_tier")),
     risk_rank |-> FillNa0(num_or_zero(cs, r, "risk_rank")),
     risk_percentile_rank |->
        IF col_exists(cs, "risk_percentile_rank") THEN r.risk_percentile_rank
        ELSE [num |-> 0, den |-> 1],
     hidden_signal_score |-> FillNa0(num_or_zero(cs, r, "hidden_signal_score")),
     hidden_signal_tier |-> AsStr(txt_or_null(cs, r, "hidden_signal_tier"))]

\* the rows load_county_scores returns
load_county_scores(cs) ==
    IF ~table_exists(cs) THEN <<>>
    ELSE Rows([i \in 1..Len(cs.rows) |-> LoadedRow(cs, cs.rows[i])])

\* a DOUBLE of so many tenths is written exactly in binary when it is a
\* multiple of one half
Dyadic(x) == x % (PerCapScale \div 2) = 0

\* np.nanmean over a column of one repeated value: the sum of one or two copies
\* is exact, and so is any sum of dyadic values of this size; the sum of three or
\* more copies of another value can round, which leaves the mean an ulp below
\* (-1) or above (1) the value. In binary64 0.1 + 0.1 + 0.1 is
\* 0.30000000000000004 and 0.2 + 0.2 + 0.2 is 0.6000000000000001, a mean above
\* the value; for the other values it hangs on bits this model does not hold.
MeanRoundings(m, x) ==
    IF m.n < 3 \/ VarN2(m) # 0 \/ Dyadic(x) THEN {0}
    ELSE IF m.n = 3 /\ 10 * x \in {PerCapScale, 2 * PerCapScale} THEN {1}
    ELSE {-1, 0, 1}

\* the roundings np.nanmean can make over the ppp_per_capita of a frame
FrameRoundings(rows) ==
    IF rows = <<>> THEN {0}
    ELSE MeanRoundings(Moments(Col(rows, "ppp_per_capita")), rows[1].ppp_per_capita)

\* 0.0 if sd == 0 else (x - mu) / sd, with np.nanstd and np.nanmean, in 1/ZScale.
\* Over a repeated value whose mean rounded by fl ulp, np.nanstd is one ulp and
\* every x - mu is -fl ulp.
PppVsPopZ(x, m, fl) ==
    IF VarN2(m) = 0 THEN (IF fl = 0 THEN 0 ELSE (0 - fl) * ZScale)
    ELSE ZValue(x, m)

\* z > 2.5
Above25(z) == 2 * z > 5 * ZScale

\* detect_population_ppp_anomalies with the mean and the deviation of a row taken
\* over the other rows
detect_population_ppp_anomaliesOthers(rows, fl) ==
    LET x == Col(rows, "ppp_per_capita")
        others(i) == Moments(SubSeq(x, 1, i - 1) \o SubSeq(x, i + 1, Len(x)))
        z == Rows([i \in 1..Len(rows) |-> ZCase(x[i], others(i))])
    IN  Rows([i \in 1..Len(rows) |->
            [ppp_vs_pop_z |-> z[i], ppp_population_flag |-> Above25(z[i])] @@ rows[i]])

detect_population_ppp_anomalies(rows, fl) ==
    LET m == Moments(Col(rows, "ppp_per_capita"))
        z == Rows([i \in 1..Len(rows) |-> PppVsPopZ(rows[i].ppp_per_capita, m, fl)])
    IN  Rows([i \in 1..Len(rows) |->
            [ppp_vs_pop_z |-> z[i], ppp_population_flag |-> Above25(z[i])] @@ rows[i]])

\* the k-th smallest value of xs
Kth(xs, k) ==
    CHOOSE v \in {xs[i] : i \in 1..Len(xs)} :
        /\ Cardinality({i \in 1..Len(xs) : xs[i] < v}) < k
        /\ k <= Cardinality({i \in 1..Len(xs) : xs[i] <= v})

\* Series.quantile(num/den), linear interpolation, times den
QuantileTimes(xs, num, den) ==
    LET h == num * (Len(xs) - 1)
        lo == h \div den + 1
        frac == h % den
        hi == IF frac = 0 THEN lo ELSE lo + 1
    IN  den * Kth(xs, lo) + frac * (Kth(xs, hi) - Kth(xs, lo))

detect_low_poverty_high_ppp(rows) ==
    LET q90x10 == QuantileTimes(Col(rows, "ppp_loan_count"), 9, 10)
    IN  Rows([i \in 1..Len(rows) |->
            [affluent_ppp_flag |->
                rows[i].Poverty_Rate < 10 /\ 10 * rows[i].ppp_loan_count > q90x10]
            @@ rows[i]])

detect_unemployment_ppp_conflicts(rows) ==
    LET q85x20 == QuantileTimes(Col(rows, "ppp_per_capita"), 17, 20)
    IN  Rows([i \in 1..Len(rows) |->
            [unemployment_ppp_flag |->
                rows[i].Unemployment_Rate < 4 /\ 20 * rows[i].ppp_per_capita > q85x20]
            @@ rows[i]])

AsInt(b) == IF b THEN 1 ELSE 0

OutlierTier(sc) ==
    IF sc >= 3 THEN "SEVERE" ELSE IF sc = 2 THEN "HIGH" ELSE IF sc = 1 THEN "MILD" ELSE "NORMAL"

\* OutlierScore without the unemployment_ppp_flag term
OutlierScoreTwoFlags(r) ==
    AsInt(r.ppp_population_flag) + AsInt(r.affluent_ppp_flag)

\* outlier_score: the three flags as integers, added
OutlierScore(r) ==
    AsInt(r.ppp_population_flag) + AsInt(r.affluent_ppp_flag) + AsInt(r.unemployment_ppp_flag)

build_outlier_model(rows, fl) ==
    LET flagged == detect_unemployment_ppp_conflicts(
                       detect_low_poverty_high_ppp(detect_population_ppp_anomalies(rows, fl)))
        sc == Rows([i \in 1..Len(flagged) |-> OutlierScore(flagged[i])])
    IN  Rows([i \in 1..Len(flagged) |->
            [outlier_score |-> sc[i], outlier_tier |-> OutlierTier(sc[i])] @@ flagged[i]])

\* (x - group mean) / group std, std the sample deviation (ddof = 1) with 0 and
\* NaN (a group of one) leaving NaN, then fillna(0.0); in 1/ZScale
PeerZ(x, m) ==
    IF m.n < 2 \/ VarN2(m) = 0 THEN 0
    ELSE LET sdPop == ISqrt(VarN2(m) * SdScale * SdScale)
             ratio == ISqrt((m.n * ZScale * ZScale) \div (m.n - 1))
         IN  ((m.n * x - m.sum) * ZScale * SdScale) \div ((sdPop * ratio) \div ZScale)

_peer_normalize(rows, col) ==
    LET groups == {rows[i].STUSPS : i \in 1..Len(rows)}
        g == [k \in groups |-> Moments(Col(SelectSeq(rows, LAMBDA r : r.STUSPS = k), col))]
    IN  Rows([i \in 1..Len(rows) |-> PeerZ(rows[i][col], g[rows[i].STUSPS])])

PeerColumns(rows) ==
    LET zpc == _peer_normalize(rows, "ppp_per_capita")
        zlc == _peer_normalize(rows, "ppp_loan_count")
    IN  Rows([i \in 1..Len(rows) |->
            [ppp_per_capita_z_peer |-> zpc[i],
             ppp_loan_count_z_peer |-> zlc[i],
             peer_outlier_flag |-> Above25(zpc[i]) \/ Above25(zlc[i])]
            @@ rows[i]])

\* OutliersRows with peer_outlier_flag counted into outlier_score in peer mode
OutliersRowsPeerCounted(cs, use_peer_norm, fl) ==
    LET loaded == load_county_scores(cs)
        model == build_outlier_model(loaded, fl)
        peer == IF use_peer_norm THEN PeerColumns(model) ELSE model
        sc == Rows([i \in 1..Len(peer) |->
                  peer[i].outlier_score
                  + (IF use_peer_norm THEN AsInt(peer[i].peer_outlier_flag) ELSE 0)])
    IN  IF loaded = <<>> THEN loaded
        ELSE Rows([i \in 1..Len(peer) |->
                [outlier_flag |-> sc[i] >= 2, outlier_score |-> sc[i],
                 outlier_tier |-> OutlierTier(sc[i])] @@ peer[i]])

\* the frame load_outliers returns
OutliersRows(cs, use_peer_norm, fl) ==
    LET loaded == load_county_scores(cs)
        model == build_outlier_model(loaded, fl)
        peer == IF use_peer_norm THEN PeerColumns(model) ELSE model
    IN  IF loaded = <<>> THEN loaded
        ELSE Rows([i \in 1..Len(peer) |-> [outlier_flag |-> peer[i].outlier_score >= 2] @@ peer[i]])

\* reads county_scores, county_ref and acs_county; writes no table
load_outliers ==
    /\ \E use_peer_norm \in BOOLEAN, fl \in FrameRoundings(load_county_scores(county_scores)) :
          df' = [loaded |-> TRUE, use_peer_norm |-> use_peer_norm,
                 rows |-> OutliersRows(county_scores, use_peer_norm, fl)]
    /\ UNCHANGED <<county_ref, acs_county, ppp_clean, county_agg, county_scores, rest>>

(***************************************************************************)
(* db/core.py ensure_base_schema                                           *)
(***************************************************************************)
\* the skeletons: CREATE TABLE ... AS SELECT ... WHERE 0=1
BasePppCols == {"loannumber"}

BaseLogCols == {"filename", "ingested_at"}

BaseAggCols ==
    {"borrowerstate_u", "county_norm", "loan_count", "loan_total", "forgiven_total",
     "jobs_reported"}

BaseScoreCols == {"GEOID", "NAME", "score_raw", "score_norm"}

\* EnsureTable as CREATE OR REPLACE TABLE
EnsureTableReplace(t, cols) == Table(cols, <<>>)

\* if not _table_exists(con, name): CREATE TABLE name, for a table held as a record
EnsureTable(t, cols) == IF table_exists(t) THEN t ELSE Table(cols, <<>>)

\* the same for a table held as a catalog entry (the skeletons of county_ref and
\* acs_county have the columns of the full tables)
EnsureCols(cols, base) == IF cols # NoCols THEN cols ELSE base

ensure_base_schema ==
    /\ schema' =
          [t \in InputTables |->
              EnsureCols(schema[t],
                         CASE t = "ppp_clean" -> BasePppCols
                           [] t = "county_ref" -> RefCols
                           [] t = "acs_county" -> AcsCols)]
    /\ ppp_ingest_log' = EnsureTable(ppp_ingest_log, BaseLogCols)
    /\ county_agg' = EnsureTable(county_agg, BaseAggCols)
    /\ county_scores' = EnsureTable(county_scores, BaseScoreCols)
    /\ UNCHANGED <<county_ref, acs_county, ppp_clean, df, acs_dictionary,
                   lender_profiles, county_lender_signals, run>>

(***************************************************************************)
(* ppp/ingest.py ingest_ppp_directory: a call, with the chunks of the CSV   *)
(* files of the directory in reading order                                 *)
(***************************************************************************)
\* a chunk as _normalize_chunk returns it: empty, or one loan
Chunks == {<<>>} \cup {<<LoanKind(k)>> : k \in {1, 3, 5}}

\* the directories: no CSV file, or up to MaxLoans chunks
Directories == UNION {[1..n -> Chunks] : n \in 0..MaxLoans}

\* the places of the chunks that are not skipped (raw_chunk.empty: continue)
Written(chunks) == SelectSeq([i \in 1..Len(chunks) |-> i], LAMBDA i : chunks[i] # <<>>)

RECURSIVE Flatten(_)
Flatten(chunks) == IF chunks = <<>> THEN <<>> ELSE Head(chunks) \o Flatten(Tail(chunks))

\* if force: DROP TABLE IF EXISTS ppp_clean; DROP TABLE IF EXISTS ppp_ingest_log
Reset(force, value, dropped) == IF force THEN dropped ELSE value

\* the first chunk written by the call: DROP TABLE IF EXISTS ppp_clean; CREATE
\* TABLE ppp_clean AS SELECT * FROM ppp_chunk
FirstChunk(rows, chunk) == chunk

\* _append_log names the five columns of IngestLogCols: the INSERT fails on a log
\* table of other columns
LogWritable(log) == IngestLogCols \subseteq log.cols

ingest_ppp_directory(force, chunks) ==
    LET written == Written(chunks)
        rows0   == Reset(force, ppp_clean, <<>>)
        cols0   == Reset(force, schema["ppp_clean"], NoCols)
        log0    == EnsureTable(Reset(force, ppp_ingest_log, NoTable), IngestLogCols)
        first   == FirstChunk(rows0, chunks[written[1]])
        later   == [j \in 1..(Len(written) - 1) |-> chunks[written[j + 1]]]
        entries == [j \in 1..Len(written) |-> LogRow(written[j], chunks[written[j]], "OK")]
    IN  /\ Len(log0.rows) + Len(written) <= MaxLogRows
        /\ IF chunks = <<>>
           THEN UNCHANGED <<ppp_clean, schema, ppp_ingest_log>>
           ELSE IF written = <<>>
           THEN /\ ppp_clean' = rows0
                /\ schema' = [schema EXCEPT !["ppp_clean"] = cols0]
                /\ ppp_ingest_log' = log0
           ELSE IF LogWritable(log0)
           THEN /\ ppp_clean' = first \o Flatten(later)
                /\ schema' = [schema EXCEPT !["ppp_clean"] = PppCols]
                /\ ppp_ingest_log' = [log0 EXCEPT !.rows = @ \o entries]
           ELSE \* the first _append_log raises, and so does the one of the handler
                /\ ppp_clean' = first
                /\ schema' = [schema EXCEPT !["ppp_clean"] = PppCols]
                /\ ppp_ingest_log' = log0
        /\ UNCHANGED <<county_ref, acs_county, county_agg, county_scores, df,
                       acs_dictionary, lender_profiles, county_lender_signals, run>>

(***************************************************************************)
(* fraud/score.py run_full_scoring, statement by statement                 *)
(***************************************************************************)
DictCols == {"variable_code", "name", "description", "topic", "table_id"}

\* the rows of the INSERT INTO acs_dictionary, by variable_code
DictionaryRows ==
    <<"Total_Pop", "Poverty_Rate", "Unemployment_Rate", "ppp_loan_count",
      "ppp_current_total", "ppp_per_capita", "risk_score", "risk_rank",
      "risk_percentile_rank", "risk_tier", "hidden_signal_score", "hidden_signal_tier">>

\* SQL UPPER()
Upper(name) == [id |-> name.id, form |-> "upper"]

LenderCols ==
    {"lender_name", "loan_count", "total_approved", "avg_loan", "total_jobs",
     "influence_rank", "influence_percentile"}

\* the SELECT of CREATE TABLE lender_profiles AS. Every loan of the model names
\* the one lender BANK and reports no jobs.
LenderProfileRows(loans) ==
    IF loans = <<>> THEN <<>>
    ELSE LET total == SumSeq(Col(loans, "currentapprovalamount"))
         IN  <<[lender_name |-> "BANK", loan_count |-> Len(loans),
                total_approved |-> total,
                avg_loan |-> [num |-> total, den |-> Len(loans)], total_jobs |-> 0,
                influence_rank |-> 1, influence_percentile |-> PercentileRank(1, 1)]>>

SignalCols ==
    {"GEOID", "STUSPS", "NAME", "lender_name", "loan_count", "total_approved",
     "lender_rank", "loan_share"}

\* the SELECT of CREATE TABLE county_lender_signals AS: the loans joined to
\* county_agg on UPPER(county_norm) = UPPER(NAME), one row per county and lender
LenderSignalRows(loans, agg) ==
    LET Mine(c) == SelectSeq(loans, LAMBDA l : Upper(l.county_norm) = Upper(c.NAME))
        hit == SelectSeq(agg, LAMBDA c : Mine(c) # <<>>)
    IN  Rows([i \in 1..Len(hit) |->
            [GEOID |-> hit[i].GEOID, STUSPS |-> hit[i].STUSPS, NAME |-> hit[i].NAME,
             lender_name |-> "BANK", loan_count |-> Len(Mine(hit[i])),
             total_approved |-> SumSeq(Col(Mine(hit[i]), "currentapprovalamount")),
             lender_rank |-> 1, loan_share |-> [num |-> 1, den |-> 1]]])

\* the columns the two lender queries read of ppp_clean
LenderInputs ==
    {"originatinglender", "servicinglendername", "borrowerstate_u", "county_norm",
     "currentapprovalamount", "initialapprovalamount", "jobsreported"}

\* the output tables of run_full_scoring
Outputs ==
    [acs_dictionary |-> acs_dictionary, county_scores |-> county_scores,
     lender_profiles |-> lender_profiles,
     county_lender_signals |-> county_lender_signals]

\* the statements of run_full_scoring, in order
Statements ==
    <<"dict_create", "dict_delete", "dict_insert",
      "scores_check", "scores_drop", "scores_create", "scores_count",
      "lender_check", "lender_drop", "lender_create", "lender_count",
      "signals_check", "signals_drop", "signals_create", "signals_count">>

Running(r) == \E k \in 1..Len(Statements) : run[r].pc = Statements[k]

\* the statement after pc, or the return of run_full_scoring
After(pc) ==
    LET k == CHOOSE i \in 1..Len(Statements) : Statements[i] = pc
    IN  IF k = Len(Statements) THEN "done" ELSE Statements[k + 1]

\* session r goes on to its next statement
Proceed(r) == run' = [run EXCEPT ![r].pc = After(run[r].pc)]

\* the statement of session r raises: the exception leaves run_full_scoring
Raise(r, message) == run' = [run EXCEPT ![r].pc = "failed", ![r].error = message]

\* session r calls run_full_scoring, once; the sessions are numbered in the order
\* of their calls
start(r) ==
    /\ run[r].pc = "idle"
    /\ \A q \in Runners : q < r => run[q].pc # "idle"
    /\ run' = [run EXCEPT ![r] = [pc |-> Statements[1], error |-> "", before |-> Outputs]]
    /\ df' = NoFrame
    /\ UNCHANGED <<county_ref, acs_county, ppp_clean, county_agg, county_scores, schema,
                   ppp_ingest_log, acs_dictionary, lender_profiles, county_lender_signals>>

\* ensure_acs_dictionary: CREATE TABLE IF NOT EXISTS, DELETE FROM, INSERT INTO
\* (its closing SELECT COUNT(*) reads the table the INSERT has just filled)
dictionary(r) ==
    /\ run[r].pc \in {"dict_create", "dict_delete", "dict_insert"}
    /\ acs_dictionary' =
          CASE run[r].pc = "dict_create" -> EnsureTable(acs_dictionary, DictCols)
            [] run[r].pc = "dict_delete" -> Table(DictCols, <<>>)
            [] run[r].pc = "dict_insert" -> Table(DictCols, acs_dictionary.rows \o DictionaryRows)
    /\ Proceed(r)
    /\ df' = NoFrame
    /\ UNCHANGED <<county_ref, acs_county, ppp_clean, county_agg, county_scores, schema,
                   ppp_ingest_log, lender_profiles, county_lender_signals>>

MissingAgg == "county_agg does not exist. Run the ACS/PPP aggregation pipeline first."

\* RequireCountyAgg with the DROP TABLE IF EXISTS ahead of the check
RequireCountyAggLate(r) ==
    IF table_exists(county_agg)
    THEN Proceed(r) /\ UNCHANGED county_scores
    ELSE Raise(r, MissingAgg) /\ county_scores' = NoTable

\* if not table_exists(con, "county_agg"): raise RuntimeError(...)
RequireCountyAgg(r) ==
    /\ IF table_exists(county_agg) THEN Proceed(r) ELSE Raise(r, MissingAgg)
    /\ UNCHANGED county_scores

\* build_county_scores: the check of county_agg, DROP TABLE IF EXISTS, CREATE
\* TABLE ... AS, SELECT COUNT(*)
scores(r) ==
    /\ run[r].pc \in {"scores_check", "scores_drop", "scores_create", "scores_count"}
    /\ CASE run[r].pc = "scores_check" -> RequireCountyAgg(r)
         [] run[r].pc = "scores_drop" ->
              /\ county_scores' = NoTable
              /\ Proceed(r)
         [] run[r].pc = "scores_create" ->
              IF table_exists(county_scores)
              THEN Raise(r, "Table with name county_scores already exists") /\ UNCHANGED county_scores
              ELSE IF ~AggReady(county_agg)
              THEN Raise(r, "county_agg: table or column not found") /\ UNCHANGED county_scores
              ELSE county_scores' \in Published(county_agg) /\ Proceed(r)
         [] run[r].pc = "scores_count" ->
              /\ IF table_exists(county_scores) THEN Proceed(r)
                 ELSE Raise(r, "Table with name county_scores does not exist")
              /\ UNCHANGED county_scores
    /\ df' = NoFrame
    /\ UNCHANGED <<county_ref, acs_county, ppp_clean, county_agg, schema, ppp_ingest_log,
                   acs_dictionary, lender_profiles, county_lender_signals>>

\* build_lender_profiles: the check of ppp_clean, DROP, CREATE, SELECT COUNT(*)
lenders(r) ==
    /\ run[r].pc \in {"lender_check", "lender_drop", "lender_create", "lender_count"}
    /\ CASE run[r].pc = "lender_check" ->
              /\ IF schema["ppp_clean"] # NoCols THEN Proceed(r)
                 ELSE Raise(r, "ppp_clean does not exist. Run the PPP ingest/normalize pipeline first.")
              /\ UNCHANGED lender_profiles
         [] run[r].pc = "lender_drop" ->
              /\ lender_profiles' = NoTable
              /\ Proceed(r)
         [] run[r].pc = "lender_create" ->
              IF table_exists(lender_profiles)
              THEN Raise(r, "Table with name lender_profiles already exists") /\ UNCHANGED lender_profiles
              ELSE IF ~(LenderInputs \subseteq schema["ppp_clean"])
              THEN Raise(r, "ppp_clean: table or column not found") /\ UNCHANGED lender_profiles
              ELSE lender_profiles' = Table(LenderCols, LenderProfileRows(ppp_clean)) /\ Proceed(r)
         [] run[r].pc = "lender_count" ->
              /\ IF table_exists(lender_profiles) THEN Proceed(r)
                 ELSE Raise(r, "Table with name lender_profiles does not exist")
              /\ UNCHANGED lender_profiles
    /\ df' = NoFrame
    /\ UNCHANGED <<county_ref, acs_county, ppp_clean, county_agg, county_scores, schema,
                   ppp_ingest_log, acs_dictionary, county_lender_signals>>

\* build_county_lender_signals: the checks of ppp_clean and county_agg, DROP,
\* CREATE, SELECT COUNT(*)
signals(r) ==
    /\ run[r].pc \in {"signals_check", "signals_drop", "signals_create", "signals_count"}
    /\ CASE run[r].pc = "signals_check" ->
              /\ IF schema["ppp_clean"] = NoCols THEN Raise(r, "ppp_clean does not exist.")
                 ELSE IF ~table_exists(county_agg) THEN Raise(r, "county_agg does not exist.")
                 ELSE Proceed(r)
              /\ UNCHANGED county_lender_signals
         [] run[r].pc = "signals_drop" ->
              /\ county_lender_signals' = NoTable
              /\ Proceed(r)
         [] run[r].pc = "signals_create" ->
              IF table_exists(county_lender_signals)
              THEN Raise(r, "Table with name county_lender_signals already exists")
                   /\ UNCHANGED county_lender_signals
              ELSE IF ~(LenderInputs \subseteq schema["ppp_clean"]
                        /\ table_exists(county_agg)
                        /\ {"GEOID", "STUSPS", "NAME"} \subseteq county_agg.cols)
              THEN Raise(r, "ppp_clean or county_agg: table or column not found")
                   /\ UNCHANGED county_lender_signals
              ELSE /\ county_lender_signals' =
                         Table(SignalCols, LenderSignalRows(ppp_clean, county_agg.rows))
                   /\ Proceed(r)
         [] run[r].pc = "signals_count" ->
              /\ IF table_exists(county_lender_signals) THEN Proceed(r)
                 ELSE Raise(r, "Table with name county_lender_signals does not exist")
              /\ UNCHANGED county_lender_signals
    /\ df' = NoFrame
    /\ UNCHANGED <<county_ref, acs_county, ppp_clean, county_agg, county_scores, schema,
                   ppp_ingest_log, acs_dictionary, lender_profiles>>

\* the run of session r is stopped between two statements
cancel(r) ==
    /\ Running(r)
    /\ run' = [run EXCEPT ![r].pc = "cancelled"]
    /\ UNCHANGED <<county_ref, acs_county, ppp_clean, county_agg, county_scores, df, schema,
                   ppp_ingest_log, acs_dictionary, lender_profiles, county_lender_signals>>

Next ==
    \/ create_county_agg
    \/ build_county_scores
    \/ create_county_scores
    \/ load_outliers

Spec == Init /\ [][Next]_vars

(***************************************************************************)
(* The database under concurrent sessions: a new file or a filled one; the *)
(* scripts and ensure_base_schema run as one step, run_full_scoring runs   *)
(* statement by statement in each session.  What a reader finds between    *)
(* two statements is the state reached there.                              *)
(***************************************************************************)
\* a database file just created: no table at all
InitNew ==
    /\ county_ref = <<>>
    /\ acs_county = <<>>
    /\ ppp_clean = <<>>
    /\ schema = NoSchema

\* two counties with their ACS rows, and loans for them
InitFilled ==
    /\ county_ref = SmallRef(2)
    /\ acs_county = AcsOf(<<1, 2>>)
    /\ ppp_clean \in NamedLoans({1})
    /\ schema = FullSchema

NoneRunning == \A r \in Runners : ~Running(r)

InitRun ==
    /\ InitNew \/ InitFilled
    /\ county_agg = NoTable
    /\ county_scores = NoTable
    /\ df = NoFrame
    /\ Unscored

\* the two scripts open the database file themselves, which DuckDB refuses while
\* another process has it open: they run when no session is scoring
NextRun ==
    \/ ensure_base_schema
    \/ NoneRunning /\ create_county_agg
    \/ NoneRunning /\ create_county_scores
    \/ \E r \in Runners :
          \/ start(r)
          \/ dictionary(r)
          \/ scores(r)
          \/ lenders(r)
          \/ signals(r)
          \/ cancel(r)

SpecRun == InitRun /\ [][NextRun]_vars

(***************************************************************************)
(* The database under repeated calls of the PPP ingest                     *)
(***************************************************************************)
NextIngest ==
    \/ \E force \in BOOLEAN, chunks \in Directories : ingest_ppp_directory(force, chunks)
    \/ ensure_base_schema
    \/ create_county_agg

SpecIngest == InitRun /\ [][NextIngest]_vars

(***************************************************************************)
(* Three counties of populations 100000, 50 and 200000: the two named Adams *)
(* share the loans written for that name, the small one has its own.  The   *)
(* legacy script publishes county_scores, and Mission Control loads it.     *)
(***************************************************************************)
ScenarioPops == <<100000, 50, 200000>>

ScenarioAcs ==
    [g \in 1..3 |-> [GEOID |-> g, Total_Pop |-> ScenarioPops[g], Poverty_Rate |-> 20,
                     Unemployment_Rate |-> 6]]

\* loans whose per-capita dollars are whole tenths in each county
ScenarioLoan(k) ==
    CASE k = 1 -> Loan(1, "AL", 100000)
      [] k = 2 -> Loan(1, "AL", 200000)
      [] k = 3 -> Loan(2, "AL", 5)
      [] k = 4 -> Loan(2, "AL", 50)
      [] k = 5 -> Loan(2, "AL", 300)
      [] OTHER -> Loan(2, "AL", 10)

ScenarioLoans ==
    {[i \in 1..Len(s) |-> ScenarioLoan(s[i])] :
        s \in UNION {{t \in [1..n -> 1..5] : \A i \in 1..(n - 1) : t[i] < t[i + 1]}
                     : n \in 0..(MaxLoans + 1)}}

InitScenario ==
    /\ county_ref = SmallRef(3)
    /\ acs_county = ScenarioAcs
    /\ ppp_clean \in ScenarioLoans
    /\ schema = FullSchema
    /\ county_agg = NoTable
    /\ county_scores = NoTable
    /\ df = NoFrame
    /\ Unscored

NextScenario ==
    \/ create_county_agg
    \/ create_county_scores
    \/ load_outliers

SpecScenario == InitScenario /\ [][NextScenario]_vars

(***************************************************************************)
(* Properties                                                              *)
(***************************************************************************)
\* county_scores is the table build_county_scores publishes
Scored == table_exists(county_scores) /\ county_scores.cols = ScoreCols

ScoredRows == IF Scored THEN county_scores.rows ELSE <<>>

ScoredIdx == 1..Len(ScoredRows)

\* the intermediate rows (z-scores, risk_score_raw) behind the published table
Intermediate == RiskBounded(county_agg.rows)

\* C1: after build_county_scores every row of county_scores has risk_score
\* within [-3.0, 5.0]
C1_RiskScoreClamped ==
    \A i \in ScoredIdx :
        /\ ScoredRows[i].risk_score >= -3 * RiskScale
        /\ ScoredRows[i].risk_score <= 5 * RiskScale

\* a published score of 5.0 whose raw composite lies above 5.0, next to a row
\* inside the range
C1_Witness ==
    /\ Scored
    /\ \E i, j \in ScoredIdx :
          /\ Intermediate[i].risk_score_raw > 5 * RiskScale
          /\ ScoredRows[i].risk_score = 5 * RiskScale
          /\ ScoredRows[j].risk_score < 0

TierOrd(t) ==
    CASE t = "LOW" -> 0 [] t = "BASELINE" -> 1 [] t = "ELEVATED" -> 2
      [] t = "HIGH" -> 3 [] t = "SEVERE" -> 4

\* C2: risk_tier is fixed by risk_score alone through the descending thresholds
\* 3.0/2.0/1.0/0.0, and a higher risk_score never has a lower tier
C2_TierMonotone ==
    /\ \A i \in ScoredIdx :
          LET sc == ScoredRows[i].risk_score
              t == ScoredRows[i].risk_tier
          IN  /\ (t = "SEVERE") = (sc >= 3 * RiskScale)
              /\ (t = "HIGH") = (sc >= 2 * RiskScale /\ sc < 3 * RiskScale)
              /\ (t = "ELEVATED") = (sc >= 1 * RiskScale /\ sc < 2 * RiskScale)
              /\ (t = "BASELINE") = (sc >= 0 /\ sc < 1 * RiskScale)
              /\ (t = "LOW") = (sc < 0)
    /\ \A i, j \in ScoredIdx :
          ScoredRows[i].risk_score > ScoredRows[j].risk_score
             => TierOrd(ScoredRows[i].risk_tier) >= TierOrd(ScoredRows[j].risk_tier)

\* a table holding a SEVERE row and a LOW row
C2_Witness ==
    /\ Scored
    /\ \E i, j \in ScoredIdx :
          /\ ScoredRows[i].risk_tier = "SEVERE"
          /\ ScoredRows[j].risk_tier = "LOW"

\* C3: within one run, risk_score(A) > risk_score(B) implies
\* risk_rank(A) < risk_rank(B)
C3_RankOrder ==
    \A i, j \in ScoredIdx :
        ScoredRows[i].risk_score > ScoredRows[j].risk_score
           => ScoredRows[i].risk_rank < ScoredRows[j].risk_rank

\* three rows of three different scores
C3_Witness ==
    /\ Scored
    /\ \E i, j, k \in ScoredIdx :
          /\ ScoredRows[i].risk_score > ScoredRows[j].risk_score
          /\ ScoredRows[j].risk_score > ScoredRows[k].risk_score

\* C4 as stated: risk_rank is a dense rank, so rank 1 is the highest score, rows
\* of equal risk_score share a rank, and the ranks in use have no gaps
C4_DenseRank ==
    /\ \A i \in ScoredIdx :
          ScoredRows[i].risk_rank = 1
             => \A j \in ScoredIdx : ScoredRows[j].risk_score <= ScoredRows[i].risk_score
    /\ \A i, j \in ScoredIdx :
          ScoredRows[i].risk_score = ScoredRows[j].risk_score
             => ScoredRows[i].risk_rank = ScoredRows[j].risk_rank
    /\ \E m \in 0..Len(ScoredRows) :
          {ScoredRows[i].risk_rank : i \in ScoredIdx} = 1..m

\* C4 amended: risk_rank is a row number: rank 1 is a row of the highest score,
\* the ranks in use are 1..N without gaps, and two rows never share a rank, of
\* equal risk_score or not
C4_RowNumberRank ==
    /\ \A i \in ScoredIdx :
          ScoredRows[i].risk_rank = 1
             => \A j \in ScoredIdx : ScoredRows[j].risk_score <= ScoredRows[i].risk_score
    /\ {ScoredRows[i].risk_rank : i \in ScoredIdx} = 1..Len(ScoredRows)
    /\ \A i, j \in ScoredIdx :
          i # j => ScoredRows[i].risk_rank # ScoredRows[j].risk_rank

\* two rows of equal risk_score in one table
C4_Witness ==
    /\ Scored
    /\ \E i, j \in ScoredIdx :
          i # j /\ ScoredRows[i].risk_score = ScoredRows[j].risk_score

\* p = 100 * (rank - 0.5) / N, for the quotient p the table holds
IsPercentileOf(p, rank, n) == p.num * 2 * n = 100 * (2 * rank - 1) * p.den

\* 0 <= p <= 100
InPercentRange(p) == p.num >= 0 /\ p.num <= 100 * p.den

\* 100 - p <= 50 / n
Within50OverNOf100(p, n) == (100 * p.den - p.num) * n <= 50 * p.den

\* p <= 50 / n
Within50OverNOf0(p, n) == p.num * n <= 50 * p.den

\* C5 as stated: the percentile is 100*(rank - 0.5)/N, lies in [0,100], and that
\* of the rank-1 entity is within 50/N of 100
C5_RankOneNear100 ==
    \A i \in ScoredIdx :
        LET p == ScoredRows[i].risk_percentile_rank
            n == Len(ScoredRows)
        IN  /\ IsPercentileOf(p, ScoredRows[i].risk_rank, n)
            /\ InPercentRange(p)
            /\ ScoredRows[i].risk_rank = 1 => Within50OverNOf100(p, n)

\* C5 amended: the percentile is 100*(rank - 0.5)/N, lies in [0,100]; that of the
\* entity of the maximum risk_rank (rank N) is within 50/N of 100 and that of the
\* rank-1 entity is within 50/N of 0
C5_LastRankNear100 ==
    \A i \in ScoredIdx :
        LET p == ScoredRows[i].risk_percentile_rank
            n == Len(ScoredRows)
        IN  /\ IsPercentileOf(p, ScoredRows[i].risk_rank, n)
            /\ InPercentRange(p)
            /\ ScoredRows[i].risk_rank = n => Within50OverNOf100(p, n)
            /\ ScoredRows[i].risk_rank = 1 => Within50OverNOf0(p, n)

\* a table of three or more rows: rank 1 and rank N are different rows
C5_Witness ==
    /\ Scored
    /\ Len(ScoredRows) >= 3
    /\ \E i, j \in ScoredIdx :
          ScoredRows[i].risk_rank = 1 /\ ScoredRows[j].risk_rank = Len(ScoredRows)
\* the rank and tier columns of a county_scores table, by county
Ranking(t) ==
    {[GEOID |-> t.rows[i].GEOID, risk_rank |-> t.rows[i].risk_rank,
      risk_percentile_rank |-> t.rows[i].risk_percentile_rank,
      risk_tier |-> t.rows[i].risk_tier] : i \in 1..Len(t.rows)}

\* C6: a run of build_county_scores over the county_agg the table in place was
\* built from leaves every county its risk_rank, risk_percentile_rank and
\* risk_tier, tied scores included
C6_RerunIdentical ==
    [][(Scored /\ Scored' /\ county_agg' = county_agg)
          => Ranking(county_scores') = Ranking(county_scores)]_vars

\* the frame holds the detector's columns
Detected == df.loaded /\ df.rows # <<>>

DetectedIdx == IF Detected THEN 1..Len(df.rows) ELSE {}

\* C7: when every county has the same dollars_per_capita the scoring model's
\* z_dpc is 0 for every county, and when every county of the frame has the same
\* ppp_per_capita the detector's ppp_vs_pop_z is 0 and ppp_population_flag is
\* false for every county
C7_ZeroSpreadZeroZ ==
    /\ (/\ Scored
        /\ \A i, j \in ScoredIdx :
              ScoredRows[i].dollars_per_capita = ScoredRows[j].dollars_per_capita)
          => \A i \in ScoredIdx : Intermediate[i].z_dpc = 0
    /\ (\A i, j \in DetectedIdx : df.rows[i].ppp_per_capita = df.rows[j].ppp_per_capita)
          => \A i \in DetectedIdx :
                df.rows[i].ppp_vs_pop_z = 0 /\ ~df.rows[i].ppp_population_flag

InvalidPop(pop) == IsNull(pop) \/ pop <= 0

\* the rows of the counties with a population above 0
ValidPop(rows) == SelectSeq(rows, LAMBDA r : ~InvalidPop(r.Total_Pop))

\* the z-scores of the per-capita metrics, by county
PerCapitaZ(rows) ==
    {[GEOID |-> rows[i].GEOID, z_dpc |-> rows[i].z_dpc, z_lpk |-> rows[i].z_lpk]
        : i \in 1..Len(rows)}

\* the detector's z-score, by county
PopulationZ(rows) ==
    {[GEOID |-> rows[i].GEOID, ppp_vs_pop_z |-> rows[i].ppp_vs_pop_z]
        : i \in 1..Len(rows)}

\* C8: a county whose population is null or <= 0 has null per-capita metrics in
\* county_agg, in county_scores and in the loaded frame, and the z-scores of the
\* other counties are those computed without it, in the scoring model and in the
\* detector
C8_InvalidPopLeftOut ==
    /\ table_exists(county_agg) /\ county_agg.cols = AggCols
          => \A i \in 1..Len(county_agg.rows) :
                InvalidPop(county_agg.rows[i].Total_Pop)
                   => IsNull(county_agg.rows[i].ppp_per_capita)
    /\ \A i \in ScoredIdx :
          InvalidPop(ScoredRows[i].Total_Pop)
             => /\ IsNull(ScoredRows[i].dollars_per_capita)
                /\ IsNull(ScoredRows[i].loans_per_1k)
    /\ Scored
          => PerCapitaZ(ValidPop(Intermediate))
                = PerCapitaZ(RiskBounded(ValidPop(county_agg.rows)))
    /\ \A i \in DetectedIdx :
          InvalidPop(df.rows[i].Total_Pop) => IsNull(df.rows[i].ppp_per_capita)
    /\ Detected
          => \E fl \in FrameRoundings(ValidPop(df.rows)) :
                PopulationZ(ValidPop(df.rows))
                   = PopulationZ(detect_population_ppp_anomalies(
                        ValidPop(load_county_scores(county_scores)), fl))

\* C9: a county with a null z-score behind its composite is published with
\* risk_score null, and a frame loaded from a table without a risk_score column
\* holds risk_score null
C9_UnscoredIsNull ==
    /\ \A i \in ScoredIdx :
          (\/ IsNull(Intermediate[i].z_dpc) \/ IsNull(Intermediate[i].z_lpk)
           \/ IsNull(Intermediate[i].z_pov) \/ IsNull(Intermediate[i].z_unemp))
             => IsNull(ScoredRows[i].risk_score)
    /\ (Detected /\ ~col_exists(county_scores, "risk_score"))
          => \A i \in DetectedIdx : IsNull(df.rows[i].risk_score)

\* min(max(x, -3.0), 5.0)
Clamped(x) ==
    IF x < -3 * RiskScale THEN -3 * RiskScale
    ELSE IF x > 5 * RiskScale THEN 5 * RiskScale ELSE x

\* C10: of two counties with equal dollars_per_capita, loans_per_1k and
\* Unemployment_Rate the one of the higher Poverty_Rate has a risk_score at least
\* as high, and a risk_score with no null term is the clamped
\* 0.40*z_dpc + 0.30*z_lpk + 0.20*z_pov + 0.10*z_unemp
C10_PovertyRaisesScore ==
    /\ \A i, j \in ScoredIdx :
          (/\ ScoredRows[i].dollars_per_capita = ScoredRows[j].dollars_per_capita
           /\ ScoredRows[i].loans_per_1k = ScoredRows[j].loans_per_1k
           /\ ScoredRows[i].Unemployment_Rate = ScoredRows[j].Unemployment_Rate
           /\ ~IsNull(ScoredRows[i].Poverty_Rate) /\ ~IsNull(ScoredRows[j].Poverty_Rate)
           /\ ScoredRows[i].Poverty_Rate > ScoredRows[j].Poverty_Rate)
             => ScoredRows[i].risk_score >= ScoredRows[j].risk_score
    /\ Scored =>
          LET z == Intermediate
          IN  \A i \in ScoredIdx :
                 (/\ ~IsNull(z[i].z_dpc) /\ ~IsNull(z[i].z_lpk)
                  /\ ~IsNull(z[i].z_pov) /\ ~IsNull(z[i].z_unemp))
                    => ScoredRows[i].risk_score
                          = Clamped(40 * z[i].z_dpc + 30 * z[i].z_lpk
                                    + 20 * z[i].z_pov + 10 * z[i].z_unemp)

\* two counties that differ in Poverty_Rate alone, the poorer one scored strictly
\* higher, with dollars_per_capita spread over the table
C10_Witness ==
    /\ Scored
    /\ \E i, j, k \in ScoredIdx :
          /\ ScoredRows[i].dollars_per_capita = ScoredRows[j].dollars_per_capita
          /\ ScoredRows[i].loans_per_1k = ScoredRows[j].loans_per_1k
          /\ ScoredRows[i].Unemployment_Rate = ScoredRows[j].Unemployment_Rate
          /\ ~IsNull(ScoredRows[j].Poverty_Rate)
          /\ ScoredRows[i].Poverty_Rate > ScoredRows[j].Poverty_Rate
          /\ ScoredRows[i].risk_score > ScoredRows[j].risk_score
          /\ ~IsNull(ScoredRows[k].dollars_per_capita)
          /\ ~IsNull(ScoredRows[i].dollars_per_capita)
          /\ ScoredRows[k].dollars_per_capita # ScoredRows[i].dollars_per_capita

HiddenOrd(t) ==
    CASE t = "NEUTRAL" -> 0 [] t = "MILD" -> 1 [] t = "INTERESTING" -> 2
      [] t = "WATCH" -> 3 [] t = "ANOMALOUS" -> 4 [] t = "CRITICAL" -> 5

\* C11: hidden_signal_tier is the step function of hidden_signal_score with cut
\* points 4, 3, 2, 1 (from the cut point on) and 0 (above it): CRITICAL,
\* ANOMALOUS, WATCH, INTERESTING, MILD, else NEUTRAL; a higher score never has a
\* lower tier; and the counties with a hidden_signal_score are those with a
\* risk_score
C11_HiddenTierSteps ==
    /\ \A i \in ScoredIdx :
          LET h == ScoredRows[i].hidden_signal_score
              t == ScoredRows[i].hidden_signal_tier
          IN  /\ (t = "CRITICAL") = (h >= 4 * RiskScale)
              /\ (t = "ANOMALOUS") = (h >= 3 * RiskScale /\ h < 4 * RiskScale)
              /\ (t = "WATCH") = (h >= 2 * RiskScale /\ h < 3 * RiskScale)
              /\ (t = "INTERESTING") = (h >= 1 * RiskScale /\ h < 2 * RiskScale)
              /\ (t = "MILD") = (h > 0 /\ h < 1 * RiskScale)
              /\ (t = "NEUTRAL") = (h <= 0)
    /\ \A i, j \in ScoredIdx :
          ScoredRows[i].hidden_signal_score > ScoredRows[j].hidden_signal_score
             => HiddenOrd(ScoredRows[i].hidden_signal_tier)
                   >= HiddenOrd(ScoredRows[j].hidden_signal_tier)
    /\ {ScoredRows[i].GEOID : i \in {k \in ScoredIdx : ~IsNull(ScoredRows[k].hidden_signal_score)}}
          = {ScoredRows[i].GEOID : i \in {k \in ScoredIdx : ~IsNull(ScoredRows[k].risk_score)}}

\* a table holding a CRITICAL row and a row of score 0, NEUTRAL
C11_Witness ==
    /\ Scored
    /\ \E i, j \in ScoredIdx :
          /\ ScoredRows[i].hidden_signal_tier = "CRITICAL"
          /\ ScoredRows[j].hidden_signal_score = 0
          /\ ScoredRows[j].hidden_signal_tier = "NEUTRAL"

\* the raw records the aggregator maps to a reference county: those of its name
MappedLoans(name) ==
    {i \in 1..Len(ppp_clean) : Lower(ppp_clean[i].county_norm) = Lower(name)}

\* the rows of table t for county g
RowsOf(t, g) == {i \in 1..Len(t.rows) : t.rows[i].GEOID = g}

\* C12: every county of county_ref has a row in county_agg and in county_scores
\* once they are built, with ppp_loan_count = 0 and ppp_current_total = 0 when no
\* row of ppp_clean maps to it, and county_scores has as many rows as county_agg
C12_NoCountyDropped ==
    /\ table_exists(county_agg)
          => \A k \in 1..Len(county_ref) :
                /\ RowsOf(county_agg, county_ref[k].GEOID) # {}
                /\ MappedLoans(county_ref[k].NAME) = {}
                      => \A i \in RowsOf(county_agg, county_ref[k].GEOID) :
                            /\ county_agg.rows[i].ppp_loan_count = 0
                            /\ county_agg.rows[i].ppp_current_total = 0
    /\ table_exists(county_scores)
          => /\ \A k \in 1..Len(county_ref) :
                   /\ RowsOf(county_scores, county_ref[k].GEOID) # {}
                   /\ MappedLoans(county_ref[k].NAME) = {}
                         => \A i \in RowsOf(county_scores, county_ref[k].GEOID) :
                               /\ county_scores.rows[i].ppp_loan_count = 0
                               /\ county_scores.rows[i].ppp_current_total = 0
             /\ Len(county_scores.rows) = Len(county_agg.rows)

\* a scored table where one county has loans and another has none
C12_Witness ==
    /\ Scored
    /\ \E i, j \in ScoredIdx :
          /\ ScoredRows[i].ppp_loan_count > 0
          /\ ScoredRows[j].ppp_loan_count = 0
          /\ MappedLoans(ScoredRows[j].NAME) = {}

\* the raw records of a reference county: those of its name in its state
OwnLoans(r) ==
    SelectSeq(ppp_clean, LAMBDA l : Lower(l.county_norm) = Lower(r.NAME)
                                       /\ l.borrowerstate_u = r.STUSPS)

\* C13: county_agg has exactly one row per GEOID of county_ref, that row's
\* ppp_loan_count and ppp_current_total are the count and the sum over the rows of
\* ppp_clean of that county only, also when two counties of different states
\* share a name, and the ppp_loan_count of all rows add up to no more than the
\* rows of ppp_clean
C13_OwnRecordsOnly ==
    table_exists(county_agg) =>
       /\ \A k \in 1..Len(county_ref) :
             /\ Cardinality(RowsOf(county_agg, county_ref[k].GEOID)) = 1
             /\ \A i \in RowsOf(county_agg, county_ref[k].GEOID) :
                   /\ county_agg.rows[i].ppp_loan_count = Len(OwnLoans(county_ref[k]))
                   /\ county_agg.rows[i].ppp_current_total
                         = SumSeq(Col(OwnLoans(county_ref[k]), "currentapprovalamount"))
       /\ Len(county_agg.rows) = Len(county_ref)
       /\ SumSeq(Col(county_agg.rows, "ppp_loan_count")) <= Len(ppp_clean)

\* the flags of a frame row that are true
TrueFlags(r) ==
    {f \in {"ppp_population_flag", "affluent_ppp_flag", "unemployment_ppp_flag"} : r[f]}

\* C14: outlier_score is the number of true flags among ppp_population_flag,
\* affluent_ppp_flag and unemployment_ppp_flag, and outlier_tier is SEVERE for 3,
\* HIGH for 2, MILD for 1 and NORMAL for 0
C14_ScoreCountsFlags ==
    \A i \in DetectedIdx :
        LET r == df.rows[i]
        IN  /\ r.outlier_score = Cardinality(TrueFlags(r))
            /\ r.outlier_score \in 0..3
            /\ r.outlier_tier =
                  (CASE r.outlier_score = 3 -> "SEVERE"
                     [] r.outlier_score = 2 -> "HIGH"
                     [] r.outlier_score = 1 -> "MILD"
                     [] r.outlier_score = 0 -> "NORMAL"
                     [] OTHER -> "none")

\* a frame with a county of three flags, SEVERE, and a county of none, NORMAL
C14_Witness ==
    \E i, j \in DetectedIdx :
        /\ Cardinality(TrueFlags(df.rows[i])) = 3
        /\ df.rows[i].outlier_tier = "SEVERE"
        /\ Cardinality(TrueFlags(df.rows[j])) = 0
        /\ df.rows[j].outlier_tier = "NORMAL"

\* the frame holds the peer columns
PeerIdx == IF Detected /\ df.use_peer_norm THEN 1..Len(df.rows) ELSE {}

\* the rows of the frame in the peer group of row i, as the code groups: by STUSPS
PeerGroup(i) == {j \in 1..Len(df.rows) : df.rows[j].STUSPS = df.rows[i].STUSPS}

\* column c has one value over the rows js
Flat(js, c) == \A j, k \in js : df.rows[j][c] = df.rows[k][c]

\* C15: a member of a peer group of fewer than 10 counties, or of a peer group
\* whose metric has standard deviation 0, has peer z-score 0 for the metric
C15_SmallOrFlatGroupZero ==
    \A i \in PeerIdx :
        /\ (Cardinality(PeerGroup(i)) < 10 \/ Flat(PeerGroup(i), "ppp_per_capita"))
              => df.rows[i].ppp_per_capita_z_peer = 0
        /\ (Cardinality(PeerGroup(i)) < 10 \/ Flat(PeerGroup(i), "ppp_loan_count"))
              => df.rows[i].ppp_loan_count_z_peer = 0

\* |z| >= 2.5, z in 1/ZScale
AbsAtLeast25(z) == 2 * z >= 5 * ZScale \/ 2 * z <= -5 * ZScale

\* C16: in peer mode peer_outlier_flag is true exactly when the absolute value of
\* the within-peer-group z-score of ppp_per_capita is at least 2.5
C16_PeerFlagIsAbsZ ==
    \A i \in PeerIdx :
        df.rows[i].peer_outlier_flag = AbsAtLeast25(df.rows[i].ppp_per_capita_z_peer)

\* C17: a frame of load_outliers in peer mode has outlier_flag equal to
\* peer_outlier_flag for every county, and a frame in global mode has outlier_flag
\* equal to (outlier_score >= 2)
C17_FlagFollowsMode ==
    /\ \A i \in PeerIdx : df.rows[i].outlier_flag = df.rows[i].peer_outlier_flag
    /\ \A i \in DetectedIdx \ PeerIdx :
          df.rows[i].outlier_flag = (df.rows[i].outlier_score >= 2)

\* the rule-based columns of a frame, by county
RuleView(rows) ==
    {[GEOID |-> rows[i].GEOID, outlier_score |-> rows[i].outlier_score,
      outlier_tier |-> rows[i].outlier_tier] : i \in 1..Len(rows)}

\* C18: a call of load_outliers, in either mode, leaves the stored county_scores
\* (and county_agg) as it was, and a call that follows another call returns the
\* same outlier_score and outlier_tier for every county, whatever the two modes
C18_LoadIsAView ==
    [][df'.loaded
          => /\ county_scores' = county_scores
             /\ county_agg' = county_agg
             /\ df.loaded => RuleView(df'.rows) = RuleView(df.rows)]_vars

\* a peer-mode frame over a scored table with a county the peer rule flags and a
\* county the rules score
C18_Witness ==
    /\ Scored
    /\ \E i, j \in PeerIdx :
          /\ df.rows[i].peer_outlier_flag
          /\ df.rows[j].outlier_score >= 1

\* the county of GEOID g has an ACS row with population, poverty rate and
\* unemployment rate all known
HasDemographics(g) ==
    \E k \in 1..Len(acs_county) :
        /\ acs_county[k].GEOID = g
        /\ ~IsNull(acs_county[k].Total_Pop)
        /\ ~IsNull(acs_county[k].Poverty_Rate)
        /\ ~IsNull(acs_county[k].Unemployment_Rate)

\* the rows of the frame whose county has all three demographics
DemographicIdx == {i \in PeerIdx : HasDemographics(df.rows[i].GEOID)}

\* the quantile bucket, of bins buckets, of value x among the values xs: the first
\* b with x at or below the b/bins quantile of xs. The quantile interpolates
\* between two neighbours of the sorted values, so a value of xs lies at or below
\* it exactly when it lies at or below the lower neighbour; the same holds on a
\* log scale, which keeps the order. Equal edges leave buckets empty.
QuantileBucket(xs, x, bins) ==
    LET n == Len(xs)
        AtOrBelow(b) == x <= Kth(xs, ((n - 1) * b) \div bins + 1)
    IN  CHOOSE b \in 1..bins : AtOrBelow(b) /\ \A c \in 1..(b - 1) : ~AtOrBelow(c)

\* column c over the rows js of the frame, in row order
FrameCol(js, c) ==
    LET idx == SelectSeq([i \in 1..Len(df.rows) |-> i], LAMBDA i : i \in js)
    IN  [k \in 1..Len(idx) |-> df.rows[idx[k]][c]]

\* the peer-group key of row i: population in 4 buckets, poverty rate and
\* unemployment rate in 3 each, the edges taken over the counties that have all
\* three
DemographicKey(i) ==
    <<QuantileBucket(FrameCol(DemographicIdx, "Total_Pop"), df.rows[i].Total_Pop, 4),
      QuantileBucket(FrameCol(DemographicIdx, "Poverty_Rate"), df.rows[i].Poverty_Rate, 3),
      QuantileBucket(FrameCol(DemographicIdx, "Unemployment_Rate"),
                     df.rows[i].Unemployment_Rate, 3)>>

\* the counties sharing the key of row i
DemographicPeers(i) == {j \in DemographicIdx : DemographicKey(j) = DemographicKey(i)}

\* C19: in peer mode every county with known population, poverty rate and
\* unemployment rate belongs to the one peer group of its quantile buckets
\* (population 4, poverty rate 3, unemployment rate 3), and its peer z-score of
\* ppp_per_capita is (value - mean) / population standard deviation over the
\* members of that group only (0 where the deviation is 0)
C19_QuantilePeerGroups ==
    \A i \in DemographicIdx :
        /\ i \in DemographicPeers(i)
        /\ \A j \in DemographicIdx :
              j \in DemographicPeers(i) <=> DemographicPeers(j) = DemographicPeers(i)
        /\ df.rows[i].ppp_per_capita_z_peer
              = ZCase(df.rows[i].ppp_per_capita,
                      Moments(FrameCol(DemographicPeers(i), "ppp_per_capita")))

\* the rows of the frame js, in row order
FrameRows(js) == SelectSeq(df.rows, LAMBDA r : \E j \in js : df.rows[j] = r)

\* the place of row i among the rows js
PlaceIn(js, i) == Cardinality({j \in js : j <= i})

\* C20: in peer mode a county lacking population, poverty rate or unemployment
\* rate is in no peer group: its peer z-score of ppp_per_capita is its z-score
\* against all counties, and the peer z-scores of the other counties are those
\* their groups give without it
C20_NoDemographicsNoPeerGroup ==
    LET kept == _peer_normalize(FrameRows(DemographicIdx), "ppp_per_capita")
    IN  /\ \A i \in PeerIdx \ DemographicIdx :
              df.rows[i].ppp_per_capita_z_peer = df.rows[i].ppp_vs_pop_z
        /\ \A i \in DemographicIdx :
              df.rows[i].ppp_per_capita_z_peer = kept[PlaceIn(DemographicIdx, i)]

\* the ACS value c of the county of GEOID g is unknown: no ACS row, or a NULL
Unknown(g, c) ==
    \A k \in 1..Len(acs_county) : acs_county[k].GEOID = g => IsNull(acs_county[k][c])

\* C28: a county whose poverty rate is unknown never has affluent_ppp_flag, and a
\* county whose unemployment rate is unknown never has unemployment_ppp_flag
C28_UnknownRateNeverFlagged ==
    \A i \in DetectedIdx :
        /\ Unknown(df.rows[i].GEOID, "Poverty_Rate") => ~df.rows[i].affluent_ppp_flag
        /\ Unknown(df.rows[i].GEOID, "Unemployment_Rate") => ~df.rows[i].unemployment_ppp_flag

\* C29: after build_county_scores over the N rows of county_agg, county_scores
\* holds the same N counties and their risk_rank values are 1..N, each once, also
\* among counties of equal risk_score
C29_RanksOverWholeRun ==
    Scored =>
       /\ Len(ScoredRows) = Len(county_agg.rows)
       /\ \A i \in ScoredIdx : ScoredRows[i].GEOID = county_agg.rows[i].GEOID
       /\ \A n \in 1..Len(county_agg.rows) :
             Cardinality({i \in ScoredIdx : ScoredRows[i].risk_rank = n}) = 1
       /\ \A i \in ScoredIdx : ScoredRows[i].risk_rank \in 1..Len(county_agg.rows)

\* a table of three counties, two of one risk_score, one of them without a valid
\* population
C29_Witness ==
    /\ Scored
    /\ Len(ScoredRows) = 3
    /\ \E i, j \in ScoredIdx :
          /\ i # j
          /\ ScoredRows[i].risk_score = ScoredRows[j].risk_score
          /\ InvalidPop(ScoredRows[i].Total_Pop)

\* C30: hidden_signal_score is never negative, and hidden_signal_tier is NEUTRAL
\* exactly when hidden_signal_score is 0
C30_HiddenNonNegative ==
    \A i \in ScoredIdx :
        /\ ~IsNull(ScoredRows[i].hidden_signal_score)
        /\ ScoredRows[i].hidden_signal_score >= 0
        /\ (ScoredRows[i].hidden_signal_tier = "NEUTRAL")
              = (ScoredRows[i].hidden_signal_score = 0)

\* a county of negative z-scores with score 0, NEUTRAL, beside a county of a
\* positive score
C30_Witness ==
    /\ Scored
    /\ LET z == Intermediate
       IN  \E i, j \in ScoredIdx :
              /\ ~IsNull(z[i].z_dpc) /\ z[i].z_dpc < 0
              /\ ~IsNull(z[i].z_lpk) /\ z[i].z_lpk < 0
              /\ ScoredRows[i].hidden_signal_score = 0
              /\ ScoredRows[i].hidden_signal_tier = "NEUTRAL"
              /\ ScoredRows[j].hidden_signal_score > 0
              /\ ScoredRows[j].hidden_signal_tier # "NEUTRAL"

\* session r runs and no other session has called run_full_scoring
RunsAlone(r) == Running(r) /\ \A q \in Runners \ {r} : run[q].pc = "idle"

\* C21: at every point of a scoring run, what a reader finds as county_scores is
\* the whole table of before the run or the whole table the run publishes, never
\* a missing one
C21_PreviousOrNewTable ==
    \A r \in Runners :
        RunsAlone(r)
           => \/ county_scores = run[r].before.county_scores
              \/ AggReady(county_agg) /\ county_scores \in Published(county_agg)

\* C22: two sessions that call run_full_scoring are serialized: the statements
\* of one never interleave with the statements of the other
C22_RunsSerialized ==
    \A r, q \in Runners : r # q => ~(Running(r) /\ Running(q))

\* C23: a run that failed or was cancelled leaves acs_dictionary, county_scores,
\* lender_profiles and county_lender_signals with the content they had before
\* the run
C23_AllOrNothing ==
    \A r \in Runners :
        (run[r].pc \in {"failed", "cancelled"} /\ \A q \in Runners \ {r} : run[q].pc = "idle")
           => Outputs = run[r].before

\* session r executes the statement it has reached
Executes(r) == Running(r) /\ run'[r].pc # run[r].pc /\ run'[r].pc # "cancelled"

\* C24: build_county_scores, called while county_agg is missing, raises its
\* RuntimeError naming county_agg with county_scores left exactly as it was, and
\* the run ends there: it drops and creates nothing afterwards
C24_MissingAggFailsFirst ==
    [][\A r \in Runners :
          /\ (run[r].pc = "scores_check" /\ ~table_exists(county_agg) /\ Executes(r))
                => /\ run'[r].pc = "failed"
                   /\ run'[r].error = MissingAgg
                   /\ county_scores' = county_scores
          /\ (run[r].pc = "failed" /\ run[r].error = MissingAgg)
                => run'[r] = run[r]]_vars

\* a run failed for the missing county_agg while county_scores exists
C24_Witness ==
    \E r \in Runners :
        /\ run[r].pc = "failed"
        /\ run[r].error = MissingAgg
        /\ ~table_exists(county_agg)
        /\ table_exists(county_scores)

\* the six core tables
AllSix ==
    /\ \A t \in InputTables : schema[t] # NoCols
    /\ table_exists(ppp_ingest_log)
    /\ table_exists(county_agg)
    /\ table_exists(county_scores)

\* C26: after a call of ensure_base_schema the six core tables exist, a table
\* that existed before the call has the schema and the rows it had, and a call
\* that finds the six tables changes nothing
C26_EnsureIsSafe ==
    [][ensure_base_schema
          => /\ AllSix'
             /\ \A t \in InputTables : schema[t] # NoCols => schema'[t] = schema[t]
             /\ <<county_ref, acs_county, ppp_clean>>' = <<county_ref, acs_county, ppp_clean>>
             /\ table_exists(ppp_ingest_log) => ppp_ingest_log' = ppp_ingest_log
             /\ table_exists(county_agg) => county_agg' = county_agg
             /\ table_exists(county_scores) => county_scores' = county_scores
             /\ AllSix => vars' = vars]_vars

\* ensure_base_schema has created the skeleton of county_scores beside an ingest
\* log that holds rows
C26_Witness ==
    /\ AllSix
    /\ county_scores.cols = BaseScoreCols
    /\ ppp_ingest_log.cols = IngestLogCols
    /\ ppp_ingest_log.rows # <<>>
    /\ ppp_clean # <<>>

\* C27: a call of ingest_ppp_directory with force=False keeps the rows that were
\* in ppp_clean and the ingest log (it drops neither table): the rows of before
\* the call are the first rows of ppp_clean after it
C27_KeepsRowsUnlessForced ==
    [][\A chunks \in Directories :
          ingest_ppp_directory(FALSE, chunks)
             => /\ Len(ppp_clean') >= Len(ppp_clean)
                /\ SubSeq(ppp_clean', 1, Len(ppp_clean)) = ppp_clean
                /\ table_exists(ppp_ingest_log)
                      => SubSeq(ppp_ingest_log'.rows, 1, Len(ppp_ingest_log.rows)) = ppp_ingest_log.rows]_vars

\* the frame holds the three counties of populations 100000, 50 and 200000 in
\* global mode
ThreeEntities ==
    /\ Detected
    /\ ~df.use_peer_norm
    /\ Len(df.rows) = 3
    /\ \A i \in 1..3 : df.rows[i].Total_Pop = ScenarioPops[df.rows[i].GEOID]

\* the per-capita amount of row i is 5 standard deviations of the other two rows
\* above their mean (np.nanstd of two values is half their distance)
FiveAbove(i) ==
    \E j, k \in 1..3 :
        /\ j < k /\ j # i /\ k # i
        /\ LET xi == df.rows[i].ppp_per_capita
               xj == df.rows[j].ppp_per_capita
               xk == df.rows[k].ppp_per_capita
               d  == IF xj > xk THEN xj - xk ELSE xk - xj
           IN  d > 0 /\ 2 * xi >= xj + xk + 5 * d

\* C25 as stated: the entity 5 standard deviations above the other two has
\* ppp_population_flag true and the other two have it false
C25_ExtremeOfThreeFlagged ==
    ThreeEntities
       => \A i \in 1..3 :
             FiveAbove(i) => \A j \in 1..3 : df.rows[j].ppp_population_flag = (j = i)

\* C25: in global mode, in a population of 3 entities (populations 100000, 50,
\* 200000) where one entity's per-capita amount is 5 standard deviations above
\* the other two, ppp_population_flag is false for the three of them: the z-score
\* is taken over the population that holds the entity itself and stays below 1.5
C25_ExtremeOfThreeNotFlagged ==
    ThreeEntities
       => \A i \in 1..3 :
             FiveAbove(i)
                => /\ \A j \in 1..3 : ~df.rows[j].ppp_population_flag
                   /\ 2 * df.rows[i].ppp_vs_pop_z < 3 * ZScale

\* the small county stands 5 standard deviations above the two large ones
C25_Witness ==
    /\ ThreeEntities
    /\ \E i \in 1..3 : FiveAbove(i) /\ df.rows[i].Total_Pop = 50


====
